---- MODULE Spec2Model ----
(***************************************************************************)
(* The HTTP transport client of gopowermax (package api): New, the verb    *)
(* wrappers, DoWithHeaders, DoAndGetResponseBody, SetToken/GetToken,       *)
(* ParseJSONError and addMetaData.                                         *)
(*                                                                         *)
(* Strings whose characters matter (host, path, token) are sequences of    *)
(* one-character strings.  Header values are sequences of atoms, so that a *)
(* basic-auth credential can embed the token it was made from.             *)
(***************************************************************************)
EXTENDS Integers, Sequences, FiniteSets, TLC

\* ---------------------------------------------------------------- bounds
MaxHostLen == 3
MaxPathLen == 3
MaxSets == 2

\* ------------------------------------------------------------- constants
HeaderKeyContentType == "Content-Type"
HeaderValContentTypeJSON == <<"application/json">>
headerValContentTypeBinaryOctetStream == <<"binary/octet-stream">>
HeaderKeyAuthorization == "Authorization"

\* ---------------------------------------------------------------- strings
SeqsUpTo(S, n) == UNION {[1..k -> S] : k \in 0..n}

EmptyMap == [k \in {} |-> <<>>]

\* a control character: url.Parse rejects a URL that holds one
Ctl == "^"

ApiLiteral == <<"/", "a", "p", "i">>

HasPrefix(s, p) == Len(s) >= Len(p) /\ SubSeq(s, 1, Len(p)) = p

\* strings.Replace(s, old, "", 1): the first occurrence of old removed
RECURSIVE ReplaceFirst(_, _)
ReplaceFirst(s, old) ==
    IF Len(s) < Len(old) THEN s
    ELSE IF HasPrefix(s, old) THEN SubSeq(s, Len(old) + 1, Len(s))
    ELSE <<Head(s)>> \o ReplaceFirst(Tail(s), old)

\* New: an empty host is refused; otherwise the first "/api" is stripped
New(hostIn) ==
    IF hostIn = <<>> THEN [ok |-> FALSE, host |-> <<>>]
    ELSE [ok |-> TRUE, host |-> ReplaceFirst(hostIn, ApiLiteral)]

HostInputs ==
    (SeqsUpTo({"h", "/"}, MaxHostLen) \ {<<>>})
        \cup {ApiLiteral, <<"h">> \o ApiLiteral, <<"h">> \o ApiLiteral \o <<"/">>}

ClientHosts == {New(h).host : h \in {x \in HostInputs : New(x).ok}}

Paths == SeqsUpTo({"/", "a", Ctl}, MaxPathLen)

\* ------------------------------------------------------ URL construction
\* s[0] == '/' : indexing an empty string panics, see IndexPanics
beginsWithSlash(s) == s[1] = "/"

endsWithSlash(s) == s[Len(s)] = "/"

IndexPanics(s) == Len(s) = 0

\* BuildURL with the leading slash of the path left in place
BuildURLKeepSlash(h, uri) ==
    h \o (IF ~endsWithSlash(h) /\ Len(uri) > 0 THEN <<"/">> ELSE <<>>) \o uri

\* lines 313-325: host, one separator when the host has none, the path
\* without its first character when that is a slash
BuildURL(h, uri) ==
    h \o (IF ~endsWithSlash(h) /\ Len(uri) > 0 THEN <<"/">> ELSE <<>>)
      \o (IF Len(uri) > 0
          THEN (IF beginsWithSlash(uri) THEN Tail(uri) ELSE uri)
          ELSE <<>>)

\* url.Parse fails on a control character
urlParseOK(u) == \A i \in 1..Len(u) : u[i] # Ctl

\* http.NewRequest fails on a method that is not a token
ValidMethods == {"GET", "POST", "PUT", "DELETE"}

validMethod(m) == m \in ValidMethods

\* ------------------------------------------------------------ http.Header
\* textproto.CanonicalMIMEHeaderKey on the keys used here
Canonical(k) ==
    CASE k = "content-type" -> "Content-Type"
      [] k = "symid" -> "Symid"
      [] k = "authorization" -> "Authorization"
      [] OTHER -> k

HSet(h, k, v) ==
    [x \in DOMAIN h \cup {Canonical(k)} |->
        IF x = Canonical(k) THEN <<v>> ELSE h[x]]

HAdd(h, k, v) ==
    [x \in DOMAIN h \cup {Canonical(k)} |->
        IF x = Canonical(k)
        THEN (IF x \in DOMAIN h THEN Append(h[x], v) ELSE <<v>>)
        ELSE h[x]]

HGet(h, k) ==
    IF Canonical(k) \in DOMAIN h /\ Len(h[Canonical(k)]) > 0
    THEN h[Canonical(k)][1]
    ELSE <<>>

HValues(h, k) == IF k \in DOMAIN h THEN h[k] ELSE <<>>

Range(s) == {s[i] : i \in 1..Len(s)}

\* req.SetBasicAuth("", t): Authorization: Basic base64(":" + t)
BasicAuth(t) == <<"Basic", ":">> \o t

\* ------------------------------------------------------------ call inputs
NilHeaders == [nil |-> TRUE, m |-> EmptyMap]

CallerValue(k) == <<"caller", k>>

MetaValue(k) == <<"meta", k>>

HeaderMaps(keys) ==
    {NilHeaders} \cup
    {[nil |-> FALSE, m |-> [k \in K |-> CallerValue(k)]] : K \in SUBSET keys}

NilBody == [kind |-> "nil", enc |-> TRUE, hasMeta |-> FALSE, meta |-> EmptyMap]

\* a body: nil, a value to be JSON-encoded (enc: json.Encode succeeds) or an
\* io.ReadCloser; hasMeta: the value has a MetaData() http.Header method
Bodies(metaKeys) ==
    {NilBody, [kind |-> "json", enc |-> FALSE, hasMeta |-> FALSE, meta |-> EmptyMap]}
    \cup {[kind |-> kd, enc |-> TRUE, hasMeta |-> FALSE, meta |-> EmptyMap] :
            kd \in {"json", "stream"}}
    \cup {[kind |-> kd, enc |-> TRUE, hasMeta |-> TRUE,
           meta |-> [k \in K |-> MetaValue(k)]] :
            kd \in {"json", "stream"}, K \in SUBSET metaKeys}

\* ----------------------------------------------------------- entry points
Invocation(entry, method, uri, headers, body, dest, raw) ==
    [entry |-> entry, method |-> method, uri |-> uri, headers |-> headers,
     body |-> body, dest |-> dest, raw |-> raw]

DoWithHeadersCall(method, uri, headers, body, dest) ==
    Invocation("DoWithHeaders", method, uri, headers, body, dest, FALSE)

DoAndGetResponseBodyCall(method, uri, headers, body) ==
    Invocation("DoAndGetResponseBody", method, uri, headers, body, FALSE, TRUE)

Get(path, headers, dest) ==
    [DoWithHeadersCall("GET", path, headers, NilBody, dest) EXCEPT !.entry = "Get"]

Post(path, headers, body, dest) ==
    [DoWithHeadersCall("POST", path, headers, body, dest) EXCEPT !.entry = "Post"]

Put(path, headers, body, dest) ==
    [DoWithHeadersCall("PUT", path, headers, body, dest) EXCEPT !.entry = "Put"]

Delete(path, headers, dest) ==
    [DoWithHeadersCall("DELETE", path, headers, NilBody, dest) EXCEPT !.entry = "Delete"]

\* Do passes a nil header map
Do(method, path, body, dest) ==
    [DoWithHeadersCall(method, path, NilHeaders, body, dest) EXCEPT !.entry = "Do"]

\* every call the interface offers, over the given inputs
Invocations(methods, uris, hdrs, bodies, dests) ==
    {Get(u, h, d) : u \in uris, h \in hdrs, d \in dests}
    \cup {Delete(u, h, d) : u \in uris, h \in hdrs, d \in dests}
    \cup {Post(u, h, b, d) : u \in uris, h \in hdrs, b \in bodies, d \in dests}
    \cup {Put(u, h, b, d) : u \in uris, h \in hdrs, b \in bodies, d \in dests}
    \cup {Do(m, u, b, d) : m \in methods, u \in uris, b \in bodies, d \in dests}
    \cup {DoWithHeadersCall(m, u, h, b, d) :
            m \in methods, u \in uris, h \in hdrs, b \in bodies, d \in dests}
    \cup {DoAndGetResponseBodyCall(m, u, h, b) :
            m \in methods, u \in uris, h \in hdrs, b \in bodies}

\* ------------------------------------------------- headers of the request
MetaGet(meta, k) == IF Canonical(k) \in DOMAIN meta THEN meta[Canonical(k)] ELSE <<>>

\* addMetaData: nothing for a nil map or a nil body; otherwise every key of
\* MetaData() is stored into the caller's map, the value being Get(k)
addMetaData(headers, body) ==
    IF headers.nil \/ body.kind = "nil" THEN headers.m
    ELSE IF body.hasMeta
    THEN [k \in DOMAIN headers.m \cup DOMAIN body.meta |->
            IF k \in DOMAIN body.meta THEN MetaGet(body.meta, k) ELSE headers.m[k]]
    ELSE headers.m

RECURSIVE Perms(_)
Perms(S) ==
    IF S = {} THEN {<<>>}
    ELSE UNION {{<<x>> \o p : p \in Perms(S \ {x})} : x \in S}

\* the orders in which `range headers` may visit the map
RangeOrders(m) == Perms(DOMAIN m)

\* lines 372-377: every entry is added, Content-Type skipped once it is set
RECURSIVE ApplyHeaders(_, _, _, _)
ApplyHeaders(hdr, m, order, isContentTypeSet) ==
    IF order = <<>> THEN hdr
    ELSE LET k == Head(order)
         IN ApplyHeaders(
                IF k = HeaderKeyContentType /\ isContentTypeSet
                THEN hdr ELSE HAdd(hdr, k, m[k]),
                m, Tail(order), isContentTypeSet)

\* lines 338-343, 352-356: the caller's Content-Type, else the default
InitialContentType(headers, default) ==
    HSet(EmptyMap, HeaderKeyContentType,
         IF HeaderKeyContentType \in DOMAIN headers.m
         THEN headers.m[HeaderKeyContentType] ELSE default)

BuildResult(kind, err, urlBuilt, url, deferred, hdr, m) ==
    [kind |-> kind, err |-> err, urlBuilt |-> urlBuilt, url |-> url,
     deferred |-> deferred, hdr |-> hdr, hdrs |-> m]

\* lines 332-377 once the URL has parsed: the request and its headers.
\* A failed http.NewRequest leaves req nil: with a body the next statement
\* dereferences it (a panic; the deferred Close of a stream still runs).
BuildRequest(c, u, order) ==
    LET m1 == addMetaData(c.headers, c.body)
    IN  IF c.body.kind = "stream"
        THEN IF ~validMethod(c.method)
             THEN BuildResult("panic", "nil req", TRUE, u, TRUE, EmptyMap, c.headers.m)
             ELSE BuildResult("built", "", TRUE, u, TRUE,
                    ApplyHeaders(
                        InitialContentType(c.headers, headerValContentTypeBinaryOctetStream),
                        m1, order, TRUE), m1)
        ELSE IF c.body.kind = "json"
        THEN IF ~c.body.enc
             THEN BuildResult("error", "encode", TRUE, u, FALSE, EmptyMap, c.headers.m)
             ELSE IF ~validMethod(c.method)
             THEN BuildResult("panic", "nil req", TRUE, u, FALSE, EmptyMap, c.headers.m)
             ELSE BuildResult("built", "", TRUE, u, FALSE,
                    ApplyHeaders(
                        InitialContentType(c.headers, HeaderValContentTypeJSON),
                        m1, order, TRUE), m1)
        ELSE IF ~validMethod(c.method)
             THEN BuildResult("error", "newrequest", TRUE, u, FALSE, EmptyMap, c.headers.m)
             ELSE BuildResult("built", "", TRUE, u, FALSE,
                    ApplyHeaders(EmptyMap, m1, order,
                                 HGet(EmptyMap, HeaderKeyContentType) # <<>>), m1)

\* lines 303-377: DoAndGetResponseBody up to the point where it reads the token
BuildCall(h, c, order) ==
    IF IndexPanics(h) \/ IndexPanics(c.uri)
    THEN BuildResult("panic", "index out of range", FALSE, <<>>, FALSE, EmptyMap, c.headers.m)
    ELSE IF ~urlParseOK(BuildURL(h, c.uri))
    THEN BuildResult("error", "url", TRUE, BuildURL(h, c.uri), FALSE, EmptyMap, c.headers.m)
    ELSE BuildRequest(c, BuildURL(h, c.uri), order)

\* the orders the header loop of a call can take
CallOrders(c) ==
    IF c.headers.nil THEN {<<>>} ELSE RangeOrders(addMetaData(c.headers, c.body))

\* -------------------------------------------------------------- responses
\* r.Status, the status line text of the response
Status(code) ==
    CASE code = 200 -> "200 OK"
      [] code = 299 -> "299 Custom"
      [] code = 304 -> "304 Not Modified"
      [] code = 404 -> "404 Not Found"
      [] code = 500 -> "500 Internal Server Error"
      [] OTHER -> "599 Custom"

\* http.StatusText: the standard reason phrase, empty for an unknown code
StatusText(code) ==
    CASE code = 200 -> "OK"
      [] code = 304 -> "Not Modified"
      [] code = 404 -> "Not Found"
      [] code = 500 -> "Internal Server Error"
      [] OTHER -> ""

StatusCodes == {200, 299, 304, 404, 500, 599}

ResBody(kind, message, status) == [kind |-> kind, message |-> message, status |-> status]

\* response bodies: no bytes, white space only, not JSON, JSON cut short, a
\* JSON object (its "message" and "httpStatusCode"), and an object with a
\* field of the wrong type after its message
ResBodies ==
    {ResBody(k, "", 0) : k \in {"empty", "space", "syntax", "truncated"}}
    \cup {ResBody("object", m, st) : m \in {"", "not found"}, st \in {0, 418}}
    \cup {ResBody("mismatch", "not found", 0)}

\* json.Decoder.Decode of the body: the error, and what it stored
JSONDecode(b) ==
    CASE b.kind \in {"empty", "space"} ->
            [err |-> "EOF", stored |-> FALSE, message |-> "", status |-> 0]
      [] b.kind = "syntax" ->
            [err |-> "SyntaxError", stored |-> FALSE, message |-> "", status |-> 0]
      [] b.kind = "truncated" ->
            [err |-> "ErrUnexpectedEOF", stored |-> FALSE, message |-> "", status |-> 0]
      [] b.kind = "mismatch" ->
            [err |-> "UnmarshalTypeError", stored |-> TRUE,
             message |-> b.message, status |-> b.status]
      [] OTHER ->
            [err |-> "nil", stored |-> TRUE, message |-> b.message, status |-> b.status]

Error(code, message) == [HTTPStatusCode |-> code, Message |-> message]

NoError == Error(0, "")

\* ParseJSONError without the stamp of line 419: a status the body gives stays
ParseJSONErrorKeepBodyStatus(r) ==
    LET d == JSONDecode(r.body)
    IN  IF d.err # "nil"
        THEN Error(r.status, StatusText(r.status))
        ELSE Error(IF d.status # 0 THEN d.status ELSE r.status,
                   IF d.message = "" THEN Status(r.status) ELSE d.message)

\* ParseJSONError: a body that does not decode gives the status code and
\* http.StatusText; one that decodes gets the status code stamped and, for an
\* empty message, r.Status
ParseJSONError(r) ==
    LET d == JSONDecode(r.body)
    IN  IF d.err # "nil"
        THEN Error(r.status, StatusText(r.status))
        ELSE Error(r.status, IF d.message = "" THEN Status(r.status) ELSE d.message)

Outcome(kind, err, decodeErr, dest) ==
    [kind |-> kind, err |-> err, decodeErr |-> decodeErr, dest |-> dest]

\* DecodeInto without the io.EOF exemption of line 284
DecodeIntoEOFIsError(r) ==
    LET d == JSONDecode(r.body)
    IN  IF d.err # "nil"
        THEN Outcome("decode error", NoError, d.err,
                     IF d.stored THEN "partial" ELSE "unchanged")
        ELSE Outcome("ok", NoError, "", "decoded")

\* lines 283-289: decode into resp; io.EOF is not an error
DecodeInto(r) ==
    LET d == JSONDecode(r.body)
    IN  IF d.err # "nil" /\ d.err # "EOF"
        THEN Outcome("decode error", NoError, d.err,
                     IF d.stored THEN "partial" ELSE "unchanged")
        ELSE Outcome("ok", NoError, "", IF d.stored THEN "decoded" ELSE "unchanged")

\* lines 276-294: DoWithHeaders on the response it got
Classify(r, dest) ==
    IF r.status >= 200 /\ r.status <= 299
    THEN IF ~dest THEN Outcome("ok", NoError, "", "unchanged") ELSE DecodeInto(r)
    ELSE Outcome("http error", ParseJSONError(r), "", "unchanged")

Response(status, body) == [got |-> TRUE, status |-> status, body |-> body]

\* c.http.Do returned an error: there is no response
NoResponse == [got |-> FALSE, status |-> 0, body |-> ResBody("empty", "", 0)]

\* ------------------------------------------------------------------ token
\* a Go string is two words, a data pointer and a length
Str(t) == [ptr |-> t, len |-> Len(t)]

\* the string a read of the two words yields: len characters from ptr, and
\* whatever lies behind the data when len exceeds it
TokVal(tok) == [i \in 1..tok.len |-> IF i <= Len(tok.ptr) THEN tok.ptr[i] ELSE "?"]

Tokens == {<<>>, <<"s">>, <<"t", "u">>}

\* ------------------------------------------------------------------ state
VARIABLES
    host,     \* client.host
    token,    \* client.token, as its two words
    setter,   \* the SetToken in progress: which word is still to be written
    pc,       \* where the call is: idle, token (line 380), auth (line 381), send, done
    call,     \* the arguments of the call
    req,      \* what lines 303-382 built: URL, request headers, the caller's map
    res,      \* the response of c.http.Do
    out,      \* what the call returned
    closes,   \* how often Close was called on a stream body
    window    \* the token values SetToken has made current while the call runs

vars == <<host, token, setter, pc, call, req, res, out, closes, window>>

NoCall == Invocation("", "", <<>>, NilHeaders, NilBody, FALSE, FALSE)

NoReq == BuildResult("", "", FALSE, <<>>, FALSE, EmptyMap, EmptyMap)

NoOut == Outcome("", NoError, "", "unchanged")

IdleSetter == [pc |-> "idle", old |-> <<>>, val |-> <<>>, n |-> 0]

InitWith(hosts, tokens) ==
    /\ host \in hosts
    /\ token \in {Str(t) : t \in tokens}
    /\ setter = IdleSetter
    /\ pc = "idle"
    /\ call = NoCall
    /\ req = NoReq
    /\ res = NoResponse
    /\ out = NoOut
    /\ closes = 0
    /\ window = {}

\* ---------------------------------------------------------------- actions
\* lines 206-252 and 303-377: a call enters, builds its URL and its request
Invoke(c, order) ==
    /\ pc = "idle"
    /\ call' = c
    /\ req' = BuildCall(host, c, order)
    /\ res' = NoResponse
    /\ window' = IF setter.pc = "idle" THEN {TokVal(token)} ELSE {setter.old, setter.val}
    /\ IF req'.kind = "built"
       THEN /\ pc' = "token"
            /\ out' = NoOut
            /\ closes' = 0
       ELSE /\ pc' = "done"
            /\ out' = Outcome(req'.kind, NoError, req'.err, "unchanged")
            /\ closes' = IF req'.deferred THEN 1 ELSE 0
    /\ UNCHANGED <<host, token, setter>>

\* line 380: if c.token != ""
CheckToken ==
    /\ pc = "token"
    /\ pc' = IF TokVal(token) # <<>> THEN "auth" ELSE "send"
    /\ UNCHANGED <<host, token, setter, call, req, res, out, closes, window>>

\* line 381: req.SetBasicAuth("", c.token)
SetAuth ==
    /\ pc = "auth"
    /\ req' = [req EXCEPT !.hdr = HSet(@, HeaderKeyAuthorization, BasicAuth(TokVal(token)))]
    /\ pc' = "send"
    /\ UNCHANGED <<host, token, setter, call, res, out, closes, window>>

\* the Close calls on a stream body by the time the call returns: the
\* transport closes the request body it was given, the deferred r.Close() runs
SendCloses(c, r) ==
    IF c.body.kind = "stream" THEN 1 + (IF r.deferred THEN 1 ELSE 0) ELSE 0

\* lines 389-398, and 268-294 for the calls that go through DoWithHeaders
Send(r) ==
    /\ pc = "send"
    /\ res' = r
    /\ out' = IF ~r.got THEN Outcome("transport error", NoError, "", "unchanged")
              ELSE IF call.raw THEN Outcome("response", NoError, "", "unchanged")
              ELSE Classify(r, call.dest)
    /\ closes' = SendCloses(call, req)
    /\ pc' = "done"
    /\ UNCHANGED <<host, token, setter, call, req, window>>

\* the caller has the result; the client is ready for the next call
Return ==
    /\ pc = "done"
    /\ pc' = "idle"
    /\ call' = NoCall
    /\ req' = NoReq
    /\ res' = NoResponse
    /\ out' = NoOut
    /\ closes' = 0
    /\ window' = {}
    /\ UNCHANGED <<host, token, setter>>

WriteWord(tok, word, t) ==
    IF word = "ptr" THEN [tok EXCEPT !.ptr = t] ELSE [tok EXCEPT !.len = Len(t)]

OtherWord(word) == IF word = "ptr" THEN "len" ELSE "ptr"

\* SetToken, c.token = token without synchronisation: the first word stored
SetTokenBegin(t, word) ==
    /\ setter.pc = "idle"
    /\ setter.n < MaxSets
    /\ token' = WriteWord(token, word, t)
    /\ setter' = [pc |-> OtherWord(word), old |-> TokVal(token), val |-> t,
                  n |-> setter.n + 1]
    /\ window' = IF pc \in {"token", "auth"} THEN window \cup {t} ELSE window
    /\ UNCHANGED <<host, pc, call, req, res, out, closes>>

\* SetToken: the second word stored, the call returns
SetTokenEnd ==
    /\ setter.pc # "idle"
    /\ token' = WriteWord(token, setter.pc, setter.val)
    /\ setter' = [setter EXCEPT !.pc = "idle"]
    /\ UNCHANGED <<host, pc, call, req, res, out, closes, window>>

\* ---------------------------------------------------------- specifications
Responses == {NoResponse} \cup {Response(st, b) : st \in StatusCodes, b \in ResBodies}

PlainResponses == {NoResponse, Response(200, ResBody("empty", "", 0))}

\* URL construction: every host New can store, every path
URLCalls == Invocations({"GET"}, Paths, {NilHeaders}, {NilBody}, {FALSE})

InitURL == InitWith(ClientHosts, {<<>>, <<"s">>})

NextURL ==
    \/ \E c \in URLCalls : \E o \in CallOrders(c) : Invoke(c, o)
    \/ CheckToken
    \/ SetAuth
    \/ \E r \in PlainResponses : Send(r)
    \/ Return

SpecURL == InitURL /\ [][NextURL]_vars

\* responses and decoding: one host, one path, every response
RespCalls == Invocations({"GET"}, {<<"/", "a">>}, {NilHeaders}, {NilBody}, BOOLEAN)

InitResp == InitWith({<<"h">>}, {<<>>, <<"s">>})

NextResp ==
    \/ \E c \in RespCalls : \E o \in CallOrders(c) : Invoke(c, o)
    \/ CheckToken
    \/ SetAuth
    \/ \E r \in Responses : Send(r)
    \/ Return

SpecResp == InitResp /\ [][NextResp]_vars

\* bodies and headers: every caller map over CallerKeys, every body
CallerKeys == {"Content-Type", "content-type", "Symid"}

MetaKeys == {"Content-Type", "Symid"}

Methods == {"POST", "BAD METHOD"}

Calls == Invocations(Methods, {<<"/", "a">>}, HeaderMaps(CallerKeys), Bodies(MetaKeys), {FALSE})

Init == InitWith({<<"h">>}, {<<>>, <<"s">>})

Next ==
    \/ \E c \in Calls : \E o \in CallOrders(c) : Invoke(c, o)
    \/ CheckToken
    \/ SetAuth
    \/ \E r \in PlainResponses : Send(r)
    \/ Return

Spec == Init /\ [][Next]_vars

\* the token: calls and SetToken interleaved on one client
TokCalls == Invocations({"GET"}, {<<"/", "a">>}, HeaderMaps({"Authorization"}), {NilBody}, {FALSE})

InitTok == InitWith({<<"h">>}, Tokens)

NextTok ==
    \/ \E c \in TokCalls : \E o \in CallOrders(c) : Invoke(c, o)
    \/ CheckToken
    \/ SetAuth
    \/ \E r \in PlainResponses : Send(r)
    \/ Return
    \/ \E t \in Tokens, w \in {"ptr", "len"} : SetTokenBegin(t, w)
    \/ SetTokenEnd

SpecTok == InitTok /\ [][NextTok]_vars

\* ------------------------------------------------------------------ claims
RECURSIVE StripTrailing(_)
StripTrailing(s) ==
    IF Len(s) > 0 /\ s[Len(s)] = "/" THEN StripTrailing(SubSeq(s, 1, Len(s) - 1)) ELSE s

RECURSIVE StripLeading(_)
StripLeading(s) == IF Len(s) > 0 /\ s[1] = "/" THEN StripLeading(Tail(s)) ELSE s

TrailingSlashes(s) == Len(s) - Len(StripTrailing(s))

LeadingSlashes(s) == Len(s) - Len(StripLeading(s))

\* exactly one slash between the host (without its closing slashes) and the
\* path (without its opening slashes)
OneSlashAtJoin(h, p, u) == u = StripTrailing(h) \o <<"/">> \o StripLeading(p)

\* C1 as stated: for every host and every non-empty path, the URL string the
\* call builds has exactly one slash where host and path are joined.
C1_JoinAnyHostAnyPath ==
    (pc # "idle" /\ req.urlBuilt /\ call.uri # <<>>)
        => OneSlashAtJoin(host, call.uri, req.url)

\* C1 amended: for every host that ends in at most one slash and every
\* non-empty path that begins with at most one slash, the URL string the call
\* builds has exactly one slash where host and path are joined.
C1_JoinSingleSlashes ==
    (pc # "idle" /\ req.urlBuilt /\ call.uri # <<>>
        /\ TrailingSlashes(host) <= 1 /\ LeadingSlashes(call.uri) <= 1)
        => OneSlashAtJoin(host, call.uri, req.url)

\* a host that ends in one slash joined with a path that begins with one
C1_Witness ==
    /\ pc = "send"
    /\ req.urlBuilt
    /\ TrailingSlashes(host) = 1
    /\ LeadingSlashes(call.uri) = 1
    /\ Len(StripLeading(call.uri)) > 0
    /\ Len(StripTrailing(host)) > 0
    /\ OneSlashAtJoin(host, call.uri, req.url)

\* C2 as stated: a call with an empty path (on a client whose host is not
\* empty) builds the host unchanged as its URL and ends in a returned outcome,
\* not in an abort.
C2_EmptyPathReturns ==
    (pc = "done" /\ call.entry # "" /\ call.uri = <<>> /\ host # <<>>)
        => (req.urlBuilt /\ req.url = host /\ out.kind # "panic")

\* line 279: the success range
Is2xx(status) == status >= 200 /\ status <= 299

\* C3: for every response with a status outside [200,299], DoWithHeaders
\* returns the structured error, and its HTTPStatusCode is the status of the
\* response, whatever the body holds.
C3_StatusStamped ==
    (pc = "done" /\ ~call.raw /\ res.got /\ ~Is2xx(res.status))
        => (out.kind = "http error" /\ out.err.HTTPStatusCode = res.status)

\* a 404 whose body gives another status: the error carries 404
C3_Witness ==
    /\ pc = "done"
    /\ ~call.raw
    /\ res.got
    /\ res.status = 404
    /\ res.body.kind = "object"
    /\ res.body.status = 418
    /\ out.kind = "http error"
    /\ out.err.HTTPStatusCode = 404

\* C4 as stated: for every non-2xx response the message of the structured
\* error is the message decoded from the body when that is non-empty, and
\* otherwise the status line text of the response, both when the body decodes
\* with an empty message and when it does not decode.
C4_MessageOrStatusLine ==
    (pc = "done" /\ ~call.raw /\ res.got /\ ~Is2xx(res.status))
        => out.err.Message =
              (IF JSONDecode(res.body).err = "nil" /\ JSONDecode(res.body).message # ""
               THEN JSONDecode(res.body).message
               ELSE Status(res.status))

\* C5 as stated: a 2xx response with an empty body and a non-nil destination
\* returns no error and leaves the destination unchanged; a 2xx response with
\* a non-empty body that fails to decode returns the decode error.
C5_EmptyBodyOnly ==
    (pc = "done" /\ ~call.raw /\ res.got /\ Is2xx(res.status) /\ call.dest)
        => /\ res.body.kind = "empty"
                => (out.kind = "ok" /\ out.dest = "unchanged")
           /\ (res.body.kind # "empty" /\ JSONDecode(res.body).err # "nil")
                => (out.kind = "decode error"
                    /\ out.decodeErr = JSONDecode(res.body).err)

\* C5 amended: a 2xx response whose body is empty or holds only white space,
\* with a non-nil destination, returns no error and leaves the destination
\* unchanged; a 2xx response whose body holds more than white space and fails
\* to decode returns the decode error.
C5_EmptyOrBlankBody ==
    (pc = "done" /\ ~call.raw /\ res.got /\ Is2xx(res.status) /\ call.dest)
        => /\ res.body.kind \in {"empty", "space"}
                => (out.kind = "ok" /\ out.dest = "unchanged")
           /\ (res.body.kind \notin {"empty", "space"} /\ JSONDecode(res.body).err # "nil")
                => (out.kind = "decode error"
                    /\ out.decodeErr = JSONDecode(res.body).err)

\* a 2xx body of white space only, decoded into a destination: no error
C5_Witness ==
    /\ pc = "done"
    /\ ~call.raw
    /\ call.dest
    /\ res.got
    /\ Is2xx(res.status)
    /\ res.body.kind = "space"
    /\ out.kind = "ok"
    /\ out.dest = "unchanged"

\* the Content-Type the caller's map gives, else the default of the body
ExpectedContentType(c) ==
    IF HeaderKeyContentType \in DOMAIN c.headers.m
    THEN c.headers.m[HeaderKeyContentType]
    ELSE IF c.body.kind = "stream"
    THEN headerValContentTypeBinaryOctetStream
    ELSE HeaderValContentTypeJSON

\* C6 as stated: for every call with a non-nil body the request that is sent
\* carries exactly one Content-Type value, the caller's when the caller's map
\* has one and the default of the body otherwise, whatever else the caller's
\* map and the body's metadata hold.
C6_OneContentType ==
    (pc = "send" /\ call.body.kind # "nil")
        => HValues(req.hdr, HeaderKeyContentType) = <<ExpectedContentType(call)>>

\* C7 as stated: when the caller's map and the body's MetaData() define the
\* same header name, the request that is sent carries the caller's value for
\* it and not the metadata value.
C7_CallerValueKept ==
    (pc = "send" /\ ~call.headers.nil /\ call.body.hasMeta)
        => \A k \in DOMAIN call.headers.m \cap DOMAIN call.body.meta :
              /\ call.headers.m[k] \in Range(HValues(req.hdr, Canonical(k)))
              /\ call.body.meta[k] \notin Range(HValues(req.hdr, Canonical(k)))

\* C8 as stated: for every call whose body has a MetaData() header set, made
\* through any entry point and with any caller map, none included, the
\* request that is sent carries every metadata header and every header of the
\* caller (Content-Type excepted).
C8_Cumulative ==
    (pc = "send" /\ call.body.hasMeta)
        => /\ \A k \in DOMAIN call.body.meta :
                Canonical(k) # HeaderKeyContentType
                    => call.body.meta[k] \in Range(HValues(req.hdr, Canonical(k)))
           /\ \A k \in DOMAIN call.headers.m :
                Canonical(k) \notin {HeaderKeyContentType, HeaderKeyAuthorization}
                    => call.headers.m[k] \in Range(HValues(req.hdr, Canonical(k)))

\* the Authorization values of a request built with token t: the credential
\* made from t, or for an empty t what the caller supplied
CredentialFor(c, t) ==
    IF t # <<>> THEN <<BasicAuth(t)>>
    ELSE IF HeaderKeyAuthorization \in DOMAIN c.headers.m
    THEN <<c.headers.m[HeaderKeyAuthorization]>>
    ELSE <<>>

\* C9 as stated: the request carries the credential of the stored token, in
\* place of the caller's Authorization, and none of the client's when the
\* token is empty; with SetToken interleaved the token used is the one set
\* last before the call, or for a call racing with SetToken the old or the
\* new value, never another.
C9_TokenOldOrNew ==
    pc = "send"
        => \E t \in window :
              HValues(req.hdr, HeaderKeyAuthorization) = CredentialFor(call, t)

\* C10 as stated: a call with a stream body that reaches the construction of
\* its request returns with the stream closed exactly once, on each way out:
\* a request that cannot be constructed, a send that fails, a send that
\* succeeds.
C10_StreamClosedOnce ==
    (pc = "done" /\ call.body.kind = "stream" /\ req.urlBuilt /\ urlParseOK(req.url))
        => (closes = 1 /\ out.kind # "panic")

\* C11 as stated: a client New returned without error holds a non-empty host
\* after the "/api" normalisation, so that a later call with a non-empty path
\* reaches URL construction and returns an outcome instead of aborting.
C11_HostNeverEmpty ==
    (pc = "done" /\ call.entry # "" /\ call.uri # <<>>)
        => (host # <<>> /\ req.urlBuilt /\ out.kind # "panic")

====
